---- MODULE Spec2Model ----
(***************************************************************************)
(* Build-job orchestrator of app.py: the job registry (build_states), the   *)
(* submit handler (build_apk), the staged pipeline thread                   *)
(* (execute_build_async), the output-driven progress estimator             *)
(* (run_gradle_with_progress) and the download handler (download).         *)
(*                                                                         *)
(* Text is modelled as a sequence of tokens (words); a line of tool output  *)
(* is a sequence of tokens without its newline, and "\n" is a token of its  *)
(* own in joined text.  Every registry access is one dict operation under  *)
(* build_states_lock and is one atomic step here.                          *)
(***************************************************************************)
EXTENDS Integers, Sequences, FiniteSets, TLC

\* Number of output lines the external build invocations write in all.
MaxLines == 2

\* The build ids uuid4 issues, in the order issued: two jobs, the fewest whose
\* pipelines interleave.
Ids == {1, 2}
AppIds == {"app1"}
\* An id no build_apk call ever issued
UnknownIds == {0}
None == "None"

VARIABLES
    build_states,   \* app.py:593  the registry: id -> dict
    next_id,        \* number of ids uuid4 has issued so far, plus one
    sub,            \* per id: where the build_apk call for that id is
    data,           \* per id: the request / thread_data of that id
    pc,             \* per id: where the thread running execute_build_async is
    final_url,      \* per id: local final_url of execute_build_async
    git_info,       \* per id: local git_info of execute_build_async (None or set)
    last_progress,  \* per id: local last_progress of run_gradle_with_progress
    current_task,   \* per id: local current_task of run_gradle_with_progress
    output_lines,   \* per id: local output_lines of run_gradle_with_progress
    cur_line,       \* per id: the line the estimator is processing
    proc_out,       \* per id: the lines the child process has written so far
    exc,            \* per id: the exception in flight in execute_build_async
    apk_file,       \* per app id: which job's build wrote OUTPUT_DIR/app/app.apk (0: no file)
    nlines,         \* number of output lines written so far, by all build invocations
    dl,             \* the download handler call in progress, and its outcome
    st,             \* the progress-stream generator: its position and locals
    events,         \* the last two events the current subscription has emitted
    clean_exit,     \* per id: how the clean command just run ended, until stage c starts
    lock,           \* build_states_lock: who holds it (None: free)
    sources         \* the job whose stage d last wrote the generated files (0: none)

vars == <<build_states, next_id, sub, data, pc, final_url, git_info, last_progress,
          current_task, output_lines, cur_line, proc_out, exc, apk_file, nlines, dl, st, events, clean_exit,
          lock, sources>>

pipe_locals == <<final_url, git_info, last_progress, current_task, output_lines,
                 cur_line, proc_out, exc>>

----------------------------------------------------------------------------
(* Text helpers *)

\* "".join(lines): every line read from the pipe ends with its newline
RECURSIVE Join(_)
Join(lines) ==
    IF lines = <<>> THEN <<>>
    ELSE Head(lines) \o <<"\n">> \o Join(Tail(lines))

\* marker in token (Python substring test on one word)
Substr(marker, tok) ==
    \/ marker = tok
    \/ marker = "Download" /\ tok = "Downloading"

\* marker in line_stripped
Contains(line, marker) == \E i \in 1..Len(line) : Substr(marker, line[i])

\* variant of DictUpdate: only the status of u is applied
DictUpdatePartial(d, u) == [x \in {"status"} \cap DOMAIN u |-> u[x]] @@ d

\* d.update(u): u's keys overwrite, d's other keys stay
DictUpdate(d, u) == u @@ d

----------------------------------------------------------------------------
(* Progress rules *)

GRADLE_TASKS == <<
    <<"preBuild", 5>>,
    <<"preReleaseBuild", 8>>,
    <<"compileReleaseAidl", 10>>,
    <<"compileReleaseRenderscript", 12>>,
    <<"generateReleaseBuildConfig", 15>>,
    <<"generateReleaseResValues", 18>>,
    <<"generateReleaseResources", 20>>,
    <<"mergeReleaseResources", 25>>,
    <<"processReleaseResources", 30>>,
    <<"compileReleaseJavaWithJavac", 45>>,
    <<"compileReleaseSources", 50>>,
    <<"mergeReleaseJavaResource", 55>>,
    <<"dexBuilderRelease", 60>>,
    <<"mergeDexRelease", 70>>,
    <<"mergeReleaseJniLibFolders", 72>>,
    <<"mergeReleaseNativeLibs", 75>>,
    <<"packageRelease", 85>>,
    <<"assembleRelease", 90>>,
    <<"signReleaseBundle", 92>>,
    <<"BUILD SUCCESSFUL", 95>> >>

\* the ceiling run_gradle_with_progress scales into
GradleCeiling == 95
\* base_progress execute_build_async passes
BuildBase == 50

\* variant of ScaledProgress: the checkpoint is scaled into base..100
ScaledProgressFullWindow(base, progress_value) ==
    base + ((progress_value * (100 - base)) \div 100)

\* base_progress + int((progress_value / 100) * (95 - base_progress));
\* the float product truncates to the same integer as the exact quotient
\* for every checkpoint of GRADLE_TASKS and base 50.
ScaledProgress(base, progress_value) ==
    base + ((progress_value * (GradleCeiling - base)) \div 100)

\* variant of FirstMatch: of the rules whose marker is in the line, the last
LastMatch(line) ==
    LET hits == {i \in 1..Len(GRADLE_TASKS) : Contains(line, GRADLE_TASKS[i][1])}
    IN IF hits = {} THEN 0
       ELSE CHOOSE i \in hits : \A j \in hits : j <= i

\* index of the first rule of the table whose marker is in the line, 0 if none
FirstMatch(line) ==
    LET hits == {i \in 1..Len(GRADLE_TASKS) : Contains(line, GRADLE_TASKS[i][1])}
    IN IF hits = {} THEN 0
       ELSE CHOOSE i \in hits : \A j \in hits : i <= j

\* line_stripped.split(">")[-1].strip()
TaskPart(line) ==
    LET gts == {i \in 1..Len(line) : line[i] = ">"}
        last == CHOOSE i \in gts : \A j \in gts : j <= i
    IN SubSeq(line, last + 1, Len(line))

\* the task name the estimator shows for a matched line (lines of Lines are
\* shorter than 50 characters, so task_part[:50] is task_part)
TaskName(line, pattern) ==
    IF Contains(line, ">") THEN TaskPart(line) ELSE <<pattern>>

\* the lines the external build tool may write
Lines == {
    <<">", "Task", "preBuild">>,
    <<">", "Task", "assembleRelease">>,
    <<"assembleRelease", "preBuild">>,
    <<"Downloading", "gradle">>,
    <<"Compiling", "mergeDexRelease">>,
    <<"warning">> }

----------------------------------------------------------------------------
(* Requests and exceptions *)

\* A build-app request.  app_id = None: the form lacks a required field
\* (app_id, name or icon).  zip: the uploaded archive (None: no or empty
\* upload; "bad": not a zip file; "noindex": a zip without index.htm*;
\* "ok": a zip with one).  git_url: None, a URL with fewer than two path
\* parts ("invalid") or a repository URL ("valid").  main_url: None or a string.
Requests ==
    [app_id : AppIds \cup {None},
     zip : {None, "bad", "noindex", "ok"},
     git_url : {None, "invalid", "valid"},
     main_url : {None, "url"}]

NoData == [app_id |-> None, zip |-> None, git_url |-> None, main_url |-> None]

\* thread_data once stage a has chosen its branch: only app_id and name are read later
AfterStageA(d) == [NoData EXCEPT !.app_id = d.app_id]

NoExc == [kind |-> None, cmd |-> <<>>, text |-> <<>>]

\* subprocess.CalledProcessError(returncode, command, output=...)
CalledProcessError(cmd, output) ==
    [kind |-> "CalledProcessError", cmd |-> cmd, text |-> output]

\* any other exception, with str(e)
Exception(text) == [kind |-> "Exception", cmd |-> <<>>, text |-> text]

\* what a failing fire-and-wait command may have written before it exits
ToolOutputs == {<<>>, <<"make:", "error", "\n">>}

CmdApplyConfig == <<"bash", "make.sh", "apply_config">>
CmdApk == <<"bash", "make.sh", "apk">>

LaunchError == <<"[Errno 2] No such file or directory: 'bash'">>

----------------------------------------------------------------------------
(* Registry writes *)

\* variant of NewRecord: the record starts in a status of its own
NewRecordPending ==
    [status |-> "pending", progress |-> 0, message |-> <<"Starting...">>]

\* the dict build_apk inserts
NewRecord ==
    [status |-> "in_progress", progress |-> 0, message |-> <<"Starting...">>]

\* no keyword arguments
NoKwargs == [x \in {} |-> None]

\* variant of WithLock: the block is left with the lock still held
WithLockKept == lock = None /\ lock' = "held"

\* with build_states_lock: ...   The block is entered when the lock is free
\* and is left, the lock free again, within the step.
WithLock == lock = None /\ lock' = None

\* variant of update: the write goes to every record of the registry
updateAll(k, progress, msg, status, kwargs) ==
    /\ WithLock
    /\ build_states' = [j \in DOMAIN build_states |->
        DictUpdate(build_states[j],
                   [progress |-> progress, message |-> msg, status |-> status] @@ kwargs)]

\* update(progress, msg, status, **kwargs) of execute_build_async
update(k, progress, msg, status, kwargs) ==
    /\ WithLock
    /\ build_states' = [build_states EXCEPT ![k] =
          DictUpdate(@, [progress |-> progress, message |-> msg, status |-> status] @@ kwargs)]

\* str(final_apk) and the download name
ApkPath(app) == <<"output", app, app, ".apk">>
ApkFilename(app) == <<app, "_release.apk">>

\* error_msg of the CalledProcessError handler
ErrorMsg(e) ==
    <<"Command failed:">> \o e.cmd \o <<"\n", "Output:", "\n">> \o e.text

\* the progress both except handlers pass to update
ErrorProgress == 0

\* variant of ExceptUpdate: the generic handler records no error detail
ExceptUpdateNoDetail(k, e) ==
    IF e.kind = "CalledProcessError"
    THEN update(k, ErrorProgress, <<"Build failed. Check console for details.">>,
                "error", [error |-> ErrorMsg(e)])
    ELSE update(k, ErrorProgress, <<"Error:">> \o e.text, "error", NoKwargs)

\* variant of ExceptUpdate: the handlers leave the progress where it was
ExceptUpdateKeepsProgress(k, e) ==
    IF e.kind = "CalledProcessError"
    THEN update(k, build_states[k]["progress"],
                <<"Build failed. Check console for details.">>,
                "error", [error |-> ErrorMsg(e)])
    ELSE update(k, build_states[k]["progress"], <<"Error:">> \o e.text, "error",
                [error |-> e.text])

\* the two except clauses of execute_build_async
ExceptUpdate(k, e) ==
    IF e.kind = "CalledProcessError"
    THEN update(k, ErrorProgress, <<"Build failed. Check console for details.">>,
                "error", [error |-> ErrorMsg(e)])
    ELSE update(k, ErrorProgress, <<"Error:">> \o e.text, "error", [error |-> e.text])

\* last = None
NoLast == [none |-> TRUE]

\* no subscription yet
NoStream == [pc |-> "idle", id |-> 0, found |-> FALSE, last |-> NoLast]

----------------------------------------------------------------------------
Init ==
    /\ build_states = [k \in {} |-> NewRecord]
    /\ next_id = 1
    /\ sub = [k \in Ids |-> "none"]
    /\ data = [k \in Ids |-> NoData]
    /\ pc = [k \in Ids |-> "none"]
    /\ final_url = [k \in Ids |-> None]
    /\ git_info = [k \in Ids |-> None]
    /\ last_progress = [k \in Ids |-> 0]
    /\ current_task = [k \in Ids |-> <<>>]
    /\ output_lines = [k \in Ids |-> <<>>]
    /\ cur_line = [k \in Ids |-> <<>>]
    /\ proc_out = [k \in Ids |-> <<>>]
    /\ exc = [k \in Ids |-> NoExc]
    /\ apk_file = [a \in AppIds |-> 0]
    /\ nlines = 0
    /\ dl = [pc |-> "idle", id |-> 0, found |-> FALSE, result |-> <<>>]
    /\ st = NoStream
    /\ events = <<>>
    /\ clean_exit = [k \in Ids |-> None]
    /\ lock = None
    /\ sources = 0

\* build_apk, download and the progress stream are coroutines of one event
\* loop: one runs at a time, up to its next await.  download has no await; the
\* generator awaits at each yield and in asyncio.sleep.
StreamHoldsLoop == st.pc \in {"compare", "dumps", "status", "error_get"}
LoopFree == dl.pc = "idle" /\ ~StreamHoldsLoop

----------------------------------------------------------------------------
(* build_apk *)

\* variant of SubmitCreate: the record is not inserted before the thread starts
SubmitCreateNoRecord(req) ==
    /\ WithLock
    /\ LoopFree
    /\ next_id \in Ids
    /\ build_states' = build_states
    /\ next_id' = next_id + 1
    /\ IF req.app_id = None
       THEN /\ sub' = [sub EXCEPT ![next_id] = "raised"]
            /\ data' = data
       ELSE /\ sub' = [sub EXCEPT ![next_id] = "reading"]
            /\ data' = [data EXCEPT ![next_id] = req]
    /\ UNCHANGED <<pc, pipe_locals, apk_file, nlines, dl, sources, st, events, clean_exit>>

\* build_apk up to its first await: the id, the record, thread_data's first keys
SubmitCreate(req) ==
    /\ WithLock
    /\ LoopFree
    /\ next_id \in Ids
    /\ build_states' = (next_id :> NewRecord) @@ build_states
    /\ next_id' = next_id + 1
    /\ IF req.app_id = None
       THEN \* KeyError: the handler raises, thread_data is never built
            /\ sub' = [sub EXCEPT ![next_id] = "raised"]
            /\ data' = data
       ELSE /\ sub' = [sub EXCEPT ![next_id] = "reading"]
            /\ data' = [data EXCEPT ![next_id] = req]
    /\ UNCHANGED <<pc, pipe_locals, apk_file, nlines, dl, sources, st, events, clean_exit>>

\* build_apk after the uploads are read: start the thread, return the id
SubmitStart(k) ==
    /\ LoopFree
    /\ sub[k] = "reading"
    /\ sub' = [sub EXCEPT ![k] = "returned"]
    /\ pc' = [pc EXCEPT ![k] = "start"]
    /\ UNCHANGED <<build_states, next_id, data, pipe_locals, apk_file, nlines, dl, sources, st, events, clean_exit, lock>>

----------------------------------------------------------------------------
(* execute_build_async *)

\* variant of Raise: only CalledProcessError has a handler
RaiseUncaught(k, e) ==
    /\ pc' = [pc EXCEPT ![k] = IF e.kind = "CalledProcessError" THEN "except" ELSE "crashed"]
    /\ exc' = [exc EXCEPT ![k] = e]

\* an exception leaves the try block
Raise(k, e) ==
    /\ pc' = [pc EXCEPT ![k] = "except"]
    /\ exc' = [exc EXCEPT ![k] = e]

Goto(k, label) ==
    /\ pc' = [pc EXCEPT ![k] = label]
    /\ exc' = exc

\* update(5, "Preparing assets..."), icon written
P_Prepare(k) ==
    /\ pc[k] = "start"
    /\ update(k, 5, <<"Preparing assets...">>, "in_progress", NoKwargs)
    /\ Goto(k, "stage_a")
    /\ UNCHANGED <<next_id, sub, data, final_url, git_info, last_progress, current_task,
                   output_lines, cur_line, proc_out, apk_file, nlines, dl, sources, st, events, clean_exit>>

\* the truth value Python gives a request field: None, b"" and "" are false
Truthy(v) == v \notin {None, ""}

\* if data["zip_data"]: unpack the archive, find index.htm*
P_StageZip(k) ==
    /\ pc[k] = "stage_a"
    /\ Truthy(data[k].zip)
    /\ CASE data[k].zip = "bad" ->
              /\ Raise(k, Exception(<<"File is not a zip file">>))
              /\ UNCHANGED <<final_url, git_info>>
         [] data[k].zip = "noindex" ->
              /\ Raise(k, Exception(<<"No index.html found in zip">>))
              /\ UNCHANGED <<final_url, git_info>>
         [] OTHER ->
              /\ Goto(k, "clean")
              /\ final_url' = [final_url EXCEPT ![k] = "asset_url"]
              /\ git_info' = [git_info EXCEPT ![k] = None]
    /\ data' = [data EXCEPT ![k] = AfterStageA(@)]
    /\ UNCHANGED <<build_states, next_id, sub, last_progress, current_task,
                   output_lines, cur_line, proc_out, apk_file, nlines, dl, sources, st, events, clean_exit, lock>>

\* a variant in which the git branch is tested before the archive branch
P_StageGitFirst(k) ==
    /\ pc[k] = "stage_a"
    /\ Truthy(data[k].git_url)
    /\ update(k, 10, <<"Configuring Git repository...">>, "in_progress", NoKwargs)
    /\ IF data[k].git_url = "invalid"
       THEN /\ Raise(k, Exception(<<"Invalid repository URL:", data[k].git_url>>))
            /\ UNCHANGED <<final_url, git_info>>
       ELSE /\ Goto(k, "clean")
            /\ final_url' = [final_url EXCEPT ![k] = ""]
            /\ git_info' = [git_info EXCEPT ![k] = "git_info"]
    /\ data' = [data EXCEPT ![k] = AfterStageA(@)]
    /\ UNCHANGED <<next_id, sub, last_progress, current_task,
                   output_lines, cur_line, proc_out, apk_file, nlines, dl, sources, st, events, clean_exit>>

\* elif data.get("git_url"): update(10, ...), parse the URL
P_StageGit(k) ==
    /\ pc[k] = "stage_a"
    /\ ~Truthy(data[k].zip)
    /\ Truthy(data[k].git_url)
    /\ update(k, 10, <<"Configuring Git repository...">>, "in_progress", NoKwargs)
    /\ IF data[k].git_url = "invalid"
       THEN /\ Raise(k, Exception(<<"Invalid repository URL:", data[k].git_url>>))
            /\ UNCHANGED <<final_url, git_info>>
       ELSE /\ Goto(k, "clean")
            /\ final_url' = [final_url EXCEPT ![k] = ""]
            /\ git_info' = [git_info EXCEPT ![k] = "git_info"]
    /\ data' = [data EXCEPT ![k] = AfterStageA(@)]
    /\ UNCHANGED <<next_id, sub, last_progress, current_task,
                   output_lines, cur_line, proc_out, apk_file, nlines, dl, sources, st, events, clean_exit>>

\* else: final_url = data["main_url"]
P_StageUrl(k) ==
    /\ pc[k] = "stage_a"
    /\ ~Truthy(data[k].zip)
    /\ ~Truthy(data[k].git_url)
    /\ Goto(k, "clean")
    /\ final_url' = [final_url EXCEPT ![k] = data[k].main_url]
    /\ git_info' = [git_info EXCEPT ![k] = None]
    /\ data' = [data EXCEPT ![k] = AfterStageA(@)]
    /\ UNCHANGED <<build_states, next_id, sub, last_progress, current_task,
                   output_lines, cur_line, proc_out, apk_file, nlines, dl, sources, st, events, clean_exit, lock>>

\* update(20, "Cleaning previous builds...")
P_Clean(k) ==
    /\ pc[k] = "clean"
    /\ update(k, 20, <<"Cleaning previous builds...">>, "in_progress", NoKwargs)
    /\ Goto(k, "clean_run")
    /\ UNCHANGED <<next_id, sub, data, final_url, git_info, last_progress, current_task,
                   output_lines, cur_line, proc_out, apk_file, nlines, dl, sources, st, events, clean_exit>>

\* how run_command can end: exit 0, CalledProcessError, or the launch fails
CommandExits == {"ok", "nonzero", "launch_failed"}

\* variant of P_CleanRun: only a clean command that exits 0 lets the job go on
P_CleanRunChecked(k) ==
    /\ pc[k] = "clean_run"
    /\ \E outcome \in CommandExits :
          /\ clean_exit' = [clean_exit EXCEPT ![k] = outcome]
          /\ IF outcome = "ok" THEN Goto(k, "config")
             ELSE Raise(k, Exception(LaunchError))
    /\ UNCHANGED <<build_states, next_id, sub, data, final_url, git_info, last_progress,
                   current_task, output_lines, cur_line, proc_out, apk_file, nlines, dl, sources, st,
                   events, lock>>

\* try: run_command(clean)  except: pass
P_CleanRun(k) ==
    /\ pc[k] = "clean_run"
    /\ \E outcome \in CommandExits :
          /\ clean_exit' = [clean_exit EXCEPT ![k] = outcome]
          /\ Goto(k, "config")
    /\ UNCHANGED <<build_states, next_id, sub, data, final_url, git_info, last_progress,
                   current_task, output_lines, cur_line, proc_out, apk_file, nlines, dl, sources, st,
                   events, lock>>

\* update(30, "Configuring project..."), write_conf; nothing is left of the
\* way the clean command ended
P_Config(k) ==
    /\ pc[k] = "config"
    /\ update(k, 30, <<"Configuring project...">>, "in_progress", NoKwargs)
    /\ Goto(k, "config_run")
    /\ clean_exit' = [clean_exit EXCEPT ![k] = None]
    /\ UNCHANGED <<next_id, sub, data, final_url, git_info, last_progress, current_task,
                   output_lines, cur_line, proc_out, apk_file, nlines, dl, sources, st, events>>

\* run_command(apply_config): check=True raises on a non-zero exit
P_ConfigRun(k) ==
    /\ pc[k] = "config_run"
    /\ \/ Goto(k, "inject")
       \/ \E out \in ToolOutputs : Raise(k, CalledProcessError(CmdApplyConfig, out))
       \/ Raise(k, Exception(LaunchError))
    /\ UNCHANGED <<build_states, next_id, sub, data, final_url, git_info, last_progress,
                   current_task, output_lines, cur_line, proc_out, apk_file, nlines, dl, sources, st, events, clean_exit, lock>>

\* update(45, "Injecting source code..."), overwrite_android_files:
\* str.replace("MAIN_URL_PLACEHOLDER", None) raises TypeError
P_Inject(k) ==
    /\ pc[k] = "inject"
    /\ update(k, 45, <<"Injecting source code...">>, "in_progress", NoKwargs)
    /\ IF git_info[k] = None /\ final_url[k] = None
       THEN Raise(k, Exception(<<"replace() argument 2 must be str, not None">>))
       ELSE Goto(k, "build")
    \* build.gradle, MainActivity.java and strings.xml are written anew
    /\ sources' = k
    \* final_url and git_info are not read after this call
    /\ final_url' = [final_url EXCEPT ![k] = None]
    /\ git_info' = [git_info EXCEPT ![k] = None]
    /\ UNCHANGED <<next_id, sub, data, last_progress, current_task,
                   output_lines, cur_line, proc_out, apk_file, nlines, dl, st, events, clean_exit>>

----------------------------------------------------------------------------
(* run_gradle_with_progress *)

\* update(50, "Building APK..."), then Popen of the build command
P_Build(k) ==
    /\ pc[k] = "build"
    /\ update(k, BuildBase, <<"Building APK...">>, "in_progress", NoKwargs)
    /\ \/ /\ Goto(k, "gradle")
          /\ last_progress' = [last_progress EXCEPT ![k] = BuildBase]
          /\ current_task' = [current_task EXCEPT ![k] = <<"Starting Gradle...">>]
          /\ output_lines' = [output_lines EXCEPT ![k] = <<>>]
          /\ proc_out' = [proc_out EXCEPT ![k] = <<>>]
       \/ /\ Raise(k, Exception(LaunchError))
          /\ UNCHANGED <<last_progress, current_task, output_lines, proc_out>>
    /\ UNCHANGED <<next_id, sub, data, final_url, git_info, cur_line, apk_file, nlines, dl, sources, st, events, clean_exit>>

\* the rule scan of one line: <<matched, scaled>> for the first matching rule
RuleScan(line, base) ==
    LET m == FirstMatch(line)
    IN IF m = 0 THEN <<0, base>>
       ELSE <<m, ScaledProgress(base, GRADLE_TASKS[m][2])>>

\* variant of Ratchet: any change of the scaled value is written
RatchetNotEqual(scaled, last) == scaled # last

\* variant of Ratchet: a value equal to the last one is written again
RatchetAtLeast(scaled, last) == scaled >= last

\* if scaled_progress > last_progress
Ratchet(scaled, last) == scaled > last

\* whether the rule scan of this line writes the registry
RuleFires(line, base, last) ==
    /\ RuleScan(line, base)[1] # 0
    /\ Ratchet(RuleScan(line, base)[2], last)

\* the message heuristics after the rule scan: the message to write, or None
HeuristicMessage(line) ==
    IF Contains(line, "Downloading") \/ Contains(line, "Download")
    THEN <<"Downloading dependencies...">>
    ELSE IF Contains(line, "Compiling")
         THEN <<"Compiling source code...">>
         ELSE None

\* variant of Collect: only the lines that match a rule are kept
CollectMatched(lines, line) ==
    IF FirstMatch(line) # 0 THEN Append(lines, line) ELSE lines

\* output_lines.append(line)
Collect(lines, line) == Append(lines, line)

\* for line in process.stdout: one line is read, collected and rule-scanned
P_GradleLine(k, line) ==
    /\ pc[k] = "gradle"
    /\ nlines' = nlines + 1
    /\ proc_out' = [proc_out EXCEPT ![k] = Append(@, line)]
    /\ output_lines' = [output_lines EXCEPT ![k] = Collect(@, line)]
    /\ IF RuleFires(line, BuildBase, last_progress[k])
       THEN LET m == RuleScan(line, BuildBase)[1]
                scaled == RuleScan(line, BuildBase)[2]
                task == TaskName(line, GRADLE_TASKS[m][1])
            IN /\ WithLock
               /\ last_progress' = [last_progress EXCEPT ![k] = scaled]
               /\ current_task' = [current_task EXCEPT ![k] = task]
               /\ build_states' = [build_states EXCEPT ![k] =
                     DictUpdate(@, [progress |-> scaled,
                                    message |-> <<"Building:">> \o task,
                                    status |-> "in_progress"])]
       ELSE UNCHANGED <<last_progress, current_task, build_states, lock>>
    /\ IF HeuristicMessage(line) # None
       THEN /\ Goto(k, "gradle_msg")
            /\ cur_line' = [cur_line EXCEPT ![k] = line]
       ELSE /\ Goto(k, "gradle")
            /\ cur_line' = cur_line
    /\ UNCHANGED <<next_id, sub, data, final_url, git_info, apk_file, dl, sources, st, events, clean_exit>>

\* variant of P_GradleMsg: the message write also puts the progress back to
\* the base of the stage
P_GradleMsgResetsProgress(k) ==
    /\ WithLock
    /\ pc[k] = "gradle_msg"
    /\ build_states' = [build_states EXCEPT ![k] =
          DictUpdate(@, [message |-> HeuristicMessage(cur_line[k]),
                         progress |-> BuildBase,
                         status |-> "in_progress"])]
    /\ Goto(k, "gradle")
    /\ cur_line' = [cur_line EXCEPT ![k] = <<>>]
    /\ UNCHANGED <<next_id, sub, data, final_url, git_info, last_progress, current_task,
                   output_lines, proc_out, apk_file, nlines, dl, sources, st, events, clean_exit>>

\* the "Downloading" / "Compiling" message write of the line just scanned
P_GradleMsg(k) ==
    /\ WithLock
    /\ pc[k] = "gradle_msg"
    /\ build_states' = [build_states EXCEPT ![k] =
          DictUpdate(@, [message |-> HeuristicMessage(cur_line[k]),
                         status |-> "in_progress"])]
    /\ Goto(k, "gradle")
    /\ cur_line' = [cur_line EXCEPT ![k] = <<>>]
    /\ UNCHANGED <<next_id, sub, data, final_url, git_info, last_progress, current_task,
                   output_lines, proc_out, apk_file, nlines, dl, sources, st, events, clean_exit>>

\* the stream ends, process.wait(): exit code 0 returns (the function's locals
\* and the pipe are gone), any other raises with the collected output.
\* A build that exits 0 has written the apk, or has not.
P_GradleExit(k) ==
    /\ pc[k] = "gradle"
    /\ \/ /\ Goto(k, "verify")
          /\ \E wrote \in BOOLEAN :
                apk_file' = IF wrote THEN [apk_file EXCEPT ![data[k].app_id] = k]
                            ELSE apk_file
          /\ output_lines' = [output_lines EXCEPT ![k] = <<>>]
          /\ proc_out' = [proc_out EXCEPT ![k] = <<>>]
          /\ last_progress' = [last_progress EXCEPT ![k] = 0]
          /\ current_task' = [current_task EXCEPT ![k] = <<>>]
       \/ /\ Raise(k, CalledProcessError(CmdApk, Join(output_lines[k])))
          /\ UNCHANGED <<apk_file, output_lines, proc_out, last_progress, current_task>>
    /\ UNCHANGED <<build_states, next_id, sub, data, final_url, git_info,
                   cur_line, nlines, dl, sources, st, events, clean_exit, lock>>

----------------------------------------------------------------------------
(* execute_build_async, after the build *)

\* variant of P_Verify: the artifact file is not looked for
P_VerifyTrustsExit(k) ==
    /\ pc[k] = "verify"
    /\ update(k, 96, <<"Verifying APK...">>, "in_progress", NoKwargs)
    /\ Goto(k, "finalize")
    /\ UNCHANGED <<next_id, sub, data, final_url, git_info, last_progress, current_task,
                   output_lines, cur_line, proc_out, apk_file, nlines, dl, sources, st, events, clean_exit>>

\* update(96, "Verifying APK..."), final_apk.exists()
P_Verify(k) ==
    /\ pc[k] = "verify"
    /\ update(k, 96, <<"Verifying APK...">>, "in_progress", NoKwargs)
    /\ IF apk_file[data[k].app_id] = 0
       THEN Raise(k, Exception(<<"APK build failed">>))
       ELSE Goto(k, "finalize")
    /\ UNCHANGED <<next_id, sub, data, final_url, git_info, last_progress, current_task,
                   output_lines, cur_line, proc_out, apk_file, nlines, dl, sources, st, events, clean_exit>>

\* variant of P_Finalize: the update before the last already says "complete"
P_FinalizeMarksComplete(k) ==
    /\ pc[k] = "finalize"
    /\ update(k, 98, <<"Finalizing...">>, "complete", NoKwargs)
    /\ Goto(k, "complete")
    /\ UNCHANGED <<next_id, sub, data, final_url, git_info, last_progress, current_task,
                   output_lines, cur_line, proc_out, apk_file, nlines, dl, sources, st, events, clean_exit>>

\* update(98, "Finalizing...")
P_Finalize(k) ==
    /\ pc[k] = "finalize"
    /\ update(k, 98, <<"Finalizing...">>, "in_progress", NoKwargs)
    /\ Goto(k, "complete")
    /\ UNCHANGED <<next_id, sub, data, final_url, git_info, last_progress, current_task,
                   output_lines, cur_line, proc_out, apk_file, nlines, dl, sources, st, events, clean_exit>>

\* the thread's locals are gone when execute_build_async returns
ThreadEnds(k) ==
    /\ pc' = [pc EXCEPT ![k] = "done"]
    /\ exc' = [exc EXCEPT ![k] = NoExc]
    /\ data' = [data EXCEPT ![k] = NoData]
    /\ final_url' = [final_url EXCEPT ![k] = None]
    /\ git_info' = [git_info EXCEPT ![k] = None]
    /\ last_progress' = [last_progress EXCEPT ![k] = 0]
    /\ current_task' = [current_task EXCEPT ![k] = <<>>]
    /\ output_lines' = [output_lines EXCEPT ![k] = <<>>]
    /\ cur_line' = [cur_line EXCEPT ![k] = <<>>]
    /\ proc_out' = [proc_out EXCEPT ![k] = <<>>]

\* variant of P_Complete: the last update repeats the progress of the one before
P_CompleteKeeps98(k) ==
    /\ pc[k] = "complete"
    /\ update(k, 98, <<"Done!">>, "complete",
              [apk_path |-> ApkPath(data[k].app_id),
               apk_filename |-> ApkFilename(data[k].app_id)])
    /\ ThreadEnds(k)
    /\ UNCHANGED <<next_id, sub, apk_file, nlines, dl, sources, st, events, clean_exit>>

\* update(100, "Done!", "complete", apk_path=..., apk_filename=...)
P_Complete(k) ==
    /\ pc[k] = "complete"
    /\ update(k, 100, <<"Done!">>, "complete",
              [apk_path |-> ApkPath(data[k].app_id),
               apk_filename |-> ApkFilename(data[k].app_id)])
    /\ ThreadEnds(k)
    /\ UNCHANGED <<next_id, sub, apk_file, nlines, dl, sources, st, events, clean_exit>>

\* except subprocess.CalledProcessError / except Exception
P_Except(k) ==
    /\ pc[k] = "except"
    /\ ExceptUpdate(k, exc[k])
    /\ ThreadEnds(k)
    /\ UNCHANGED <<next_id, sub, apk_file, nlines, dl, sources, st, events, clean_exit>>

----------------------------------------------------------------------------
(* download *)

\* what download leaves behind when it has answered
DownloadDone(result) == [pc |-> "idle", id |-> 0, found |-> FALSE, result |-> result]

\* with build_states_lock: state = build_states.get(build_id)
DownloadGet(id) ==
    /\ WithLock
    /\ LoopFree
    /\ dl' = [pc |-> "got", id |-> id, found |-> id \in DOMAIN build_states,
              result |-> <<>>]
    /\ UNCHANGED <<build_states, next_id, sub, data, pc, pipe_locals, apk_file, nlines,
                   sources, st, events, clean_exit>>

\* variant of NotReady: only an unknown id is refused
NotReadyUnknownOnly(found, state) == ~found

\* if not state or state["status"] != "complete": raise RuntimeError("Not ready")
NotReady(found, state) == ~found \/ state["status"] # "complete"

\* state[key]: the value, or KeyError
Subscript(state, key) == IF key \in DOMAIN state THEN state[key] ELSE <<"KeyError", key>>

\* File(path=..., filename=...)
FileResponse(path, filename) == <<"File", path, filename>>

\* The dict download holds is the registry's dict itself, not a copy: each of
\* its reads below sees the fields as they are when it runs.
DlState == IF dl.found THEN build_states[dl.id] ELSE NewRecord

\* the test of the dict obtained: "Not ready", or on to the File
DownloadCheck ==
    /\ dl.pc = "got"
    /\ dl' = IF NotReady(dl.found, DlState)
             THEN DownloadDone(<<"Not ready">>)
             ELSE [dl EXCEPT !.pc = "path"]
    /\ UNCHANGED <<build_states, next_id, sub, data, pc, pipe_locals, apk_file, nlines,
                   sources, st, events, clean_exit, lock>>

\* state["apk_path"]
DownloadPath ==
    /\ dl.pc = "path"
    /\ dl' = IF "apk_path" \in DOMAIN DlState
             THEN [dl EXCEPT !.pc = "filename", !.result = Subscript(DlState, "apk_path")]
             ELSE DownloadDone(Subscript(DlState, "apk_path"))
    /\ UNCHANGED <<build_states, next_id, sub, data, pc, pipe_locals, apk_file, nlines,
                   sources, st, events, clean_exit, lock>>

\* state["apk_filename"], and the File is returned
DownloadFilename ==
    /\ dl.pc = "filename"
    /\ dl' = IF "apk_filename" \in DOMAIN DlState
             THEN DownloadDone(FileResponse(dl.result, Subscript(DlState, "apk_filename")))
             ELSE DownloadDone(Subscript(DlState, "apk_filename"))
    /\ UNCHANGED <<build_states, next_id, sub, data, pc, pipe_locals, apk_file, nlines,
                   sources, st, events, clean_exit, lock>>

----------------------------------------------------------------------------
\* stream_progress: the generator of one subscription.

\* json.dumps(state): the items of the dict, in insertion order.  update()
\* never removes a key, so the order is that of the keys' first writes.
KeyOrder == <<"status", "progress", "message", "apk_path", "apk_filename", "error">>

RECURSIVE DumpsFrom(_, _)
DumpsFrom(d, i) ==
    IF i > Len(KeyOrder) THEN <<>>
    ELSE (IF KeyOrder[i] \in DOMAIN d THEN <<<<KeyOrder[i], d[KeyOrder[i]]>>>> ELSE <<>>)
         \o DumpsFrom(d, i + 1)

Dumps(d) == DumpsFrom(d, 1)

\* f"data: {json.dumps(state)}\n\n"
SnapshotEvent(state) == [event |-> "message", data |-> Dumps(state)]

\* f"event: complete\ndata: {json.dumps({'build_id': build_id})}\n\n"
CompleteEvent(build_id) == [event |-> "complete", data |-> <<<<"build_id", build_id>>>>]

\* f"event: error\ndata: {json.dumps({'error': ...})}\n\n"
ErrorEvent(error) == [event |-> "error", data |-> <<<<"error", error>>>>]

\* state.get('error')
GetError(state) == IF "error" \in DOMAIN state THEN state["error"] ELSE <<None>>

\* The dict the generator holds is the registry's dict itself; only `last`
\* is a copy.
StState == build_states[st.id]

\* yield: the client receives one more event
Emit(e) == events' = IF events = <<>> THEN <<e>> ELSE <<events[Len(events)], e>>

\* the variables the generator never writes
StreamFrame ==
    UNCHANGED <<build_states, next_id, sub, data, pc, pipe_locals, apk_file, nlines, dl,
                clean_exit, sources>>

\* a client opens the stream of an id: generator(), last = None
Subscribe(id) ==
    /\ st.pc \in {"idle", "ended", "closed"}
    /\ st' = [pc |-> "poll", id |-> id, found |-> FALSE, last |-> NoLast]
    /\ events' = <<>>
    /\ UNCHANGED lock
    /\ StreamFrame

\* variant of S_Get: an unknown id ends the stream without any event
S_GetSilent ==
    /\ st.pc = "poll"
    /\ LoopFree
    /\ IF st.id \in DOMAIN build_states
       THEN st' = [st EXCEPT !.pc = "compare", !.found = TRUE] /\ events' = events
       ELSE st' = [st EXCEPT !.pc = "ended"] /\ events' = events
    /\ WithLock
    /\ StreamFrame

\* state = build_states.get(build_id); if not state: yield the error event, break
S_Get ==
    /\ st.pc = "poll"
    /\ LoopFree
    /\ IF st.id \in DOMAIN build_states
       THEN st' = [st EXCEPT !.pc = "compare", !.found = TRUE] /\ events' = events
       ELSE /\ st' = [st EXCEPT !.pc = "ended", !.found = FALSE]
            /\ Emit(ErrorEvent(<<"Invalid ID">>))
    /\ WithLock
    /\ StreamFrame

\* variant of Differs: the first poll emits nothing
DiffersFromNewRecord(state, last) == IF last = NoLast THEN state # NewRecord ELSE state # last

\* state != last
Differs(state, last) == state # last

\* if state != last:
S_Compare ==
    /\ st.pc = "compare"
    /\ st' = [st EXCEPT !.pc = IF Differs(StState, st.last) THEN "dumps" ELSE "status"]
    /\ UNCHANGED events
    /\ UNCHANGED lock
    /\ StreamFrame

\* yield f"data: {json.dumps(state)}\n\n"
S_Dumps ==
    /\ st.pc = "dumps"
    /\ Emit(SnapshotEvent(StState))
    /\ st' = [st EXCEPT !.pc = "copy"]
    /\ UNCHANGED lock
    /\ StreamFrame

\* the generator is resumed: last = state.copy()
S_Copy ==
    /\ st.pc = "copy"
    /\ LoopFree
    /\ st' = [st EXCEPT !.pc = "status", !.last = StState]
    /\ UNCHANGED events
    /\ UNCHANGED lock
    /\ StreamFrame

\* variant of S_Status: the terminal event is sent for every status
S_StatusAlwaysComplete ==
    /\ st.pc = "status"
    /\ Emit(CompleteEvent(st.id))
    /\ st' = [st EXCEPT !.pc = "ended"]
    /\ UNCHANGED lock
    /\ StreamFrame

\* variant of S_Status: a terminal status does not end the stream
S_StatusKeepsPolling ==
    /\ st.pc = "status"
    /\ st' = [st EXCEPT !.pc = "poll"]
    /\ UNCHANGED events
    /\ UNCHANGED lock
    /\ StreamFrame

\* if state["status"] == "complete": yield the complete event, break
\* if state["status"] == "error": ...   else: await asyncio.sleep(0.5)
S_Status ==
    /\ st.pc = "status"
    /\ CASE StState["status"] = "complete" ->
                /\ Emit(CompleteEvent(st.id))
                /\ st' = [st EXCEPT !.pc = "ended"]
         [] StState["status"] = "error" ->
                /\ st' = [st EXCEPT !.pc = "error_get"]
                /\ UNCHANGED events
         [] OTHER ->
                /\ st' = [st EXCEPT !.pc = "poll"]
                /\ UNCHANGED events
    /\ UNCHANGED lock
    /\ StreamFrame

\* yield the error event with state.get('error'), break
S_ErrorGet ==
    /\ st.pc = "error_get"
    /\ Emit(ErrorEvent(GetError(StState)))
    /\ st' = [st EXCEPT !.pc = "ended"]
    /\ UNCHANGED lock
    /\ StreamFrame

\* the client goes away while the generator waits at a yield or in the sleep
\* a variant in which closing the connection ends the job's thread
DisconnectCancelsJob ==
    /\ st.pc \in {"poll", "copy"}
    /\ st' = [st EXCEPT !.pc = "closed"]
    /\ pc' = [k \in Ids |-> IF k = st.id /\ pc[k] # "none" THEN "done" ELSE pc[k]]
    /\ UNCHANGED <<build_states, next_id, sub, data, pipe_locals, apk_file, nlines, dl,
                   clean_exit, sources, events, lock>>

Disconnect ==
    /\ st.pc \in {"poll", "copy"}
    /\ st' = [st EXCEPT !.pc = "closed"]
    /\ UNCHANGED events
    /\ UNCHANGED lock
    /\ StreamFrame

\* one step of the generator
Stream ==
    \/ S_Get
    \/ S_Compare
    \/ S_Dumps
    \/ S_Copy
    \/ S_Status
    \/ S_ErrorGet

----------------------------------------------------------------------------
\* One step of the thread of job k; the build tool writes lines of `lines`, and
\* no more than `budget` lines are written in all.
PipelineOver(k, lines, budget) ==
    \/ P_Prepare(k)
    \/ P_StageZip(k)
    \/ P_StageGit(k)
    \/ P_StageUrl(k)
    \/ P_Clean(k)
    \/ P_CleanRun(k)
    \/ P_Config(k)
    \/ P_ConfigRun(k)
    \/ P_Inject(k)
    \/ P_Build(k)
    \/ \E line \in lines : nlines < budget /\ P_GradleLine(k, line)
    \/ P_GradleMsg(k)
    \/ P_GradleExit(k)
    \/ P_Verify(k)
    \/ P_Finalize(k)
    \/ P_Complete(k)
    \/ P_Except(k)

Pipeline(k) == PipelineOver(k, Lines, MaxLines)

\* download, from its registry read to its answer
Download ==
    \/ \E id \in Ids \cup UnknownIds : DownloadGet(id)
    \/ DownloadCheck
    \/ DownloadPath
    \/ DownloadFilename

Next ==
    \/ \E req \in Requests : SubmitCreate(req)
    \/ \E k \in Ids : SubmitStart(k)
    \/ \E k \in Ids : Pipeline(k)
    \/ Download

Spec == Init /\ [][Next]_vars

\* The submissions and their pipeline threads alone.  The threads run: one that
\* can take a step eventually takes one (every external command it waits for ends).
NextBuilds ==
    \/ \E req \in Requests : SubmitCreate(req)
    \/ \E k \in Ids : SubmitStart(k)
    \/ \E k \in Ids : Pipeline(k)

FairSpec == Init /\ [][NextBuilds]_vars /\ \A k \in Ids : WF_vars(Pipeline(k))

\* One job and one client at a time following it: the job's thread, the
\* submit handler, the stream generator and download.
MaxStreamLines == 3

StreamLines == {<<">", "Task", "preBuild">>, <<"Downloading", "gradle">>,
                <<"Compiling", "mergeDexRelease">>}

SubmitFirst == \E req \in Requests : next_id = 1 /\ SubmitCreate(req)

NextStream ==
    \/ SubmitFirst
    \/ SubmitStart(1)
    \/ PipelineOver(1, StreamLines, MaxStreamLines)
    \/ \E id \in {1} \cup UnknownIds : Subscribe(id)
    \/ Stream
    \/ Disconnect

StreamSpec == Init /\ [][NextStream]_vars

\* One job whose build tool may write a task line for any rule of the table.
MaxEstLines == 2

TaskLines == {<<">", "Task", GRADLE_TASKS[i][1]>> : i \in 1..Len(GRADLE_TASKS)}

\* a line with both heuristic words and a marker, and one with none of them
MixedLines == {<<"Download", "Compiling", "packageRelease">>, <<"Compiling", "sources">>}

EstLines == TaskLines \cup Lines \cup MixedLines

NextEst ==
    \/ SubmitFirst
    \/ SubmitStart(1)
    \/ PipelineOver(1, EstLines, MaxEstLines)

EstSpec == Init /\ [][NextEst]_vars

\* One job whose request may also carry an empty archive or an empty git URL.
SourceRequests ==
    [app_id : AppIds,
     zip : {None, "", "bad", "noindex", "ok"},
     git_url : {None, "", "invalid", "valid"},
     main_url : {None, "url"}]

SubmitSource == \E req \in SourceRequests : next_id = 1 /\ SubmitCreate(req)

NextSource ==
    \/ SubmitSource
    \/ SubmitStart(1)
    \/ PipelineOver(1, StreamLines, MaxStreamLines)

SourceSpec == Init /\ [][NextSource]_vars

\* the same, with download calls
ReadersSpec == Init /\ [][NextStream \/ Download]_vars

\* The thread, once started, keeps running, and the event loop keeps resuming
\* the generator; clients subscribe and disconnect as they please.
FairStreamSpec ==
    /\ StreamSpec
    /\ WF_vars(PipelineOver(1, StreamLines, MaxStreamLines))
    /\ WF_vars(Stream)

----------------------------------------------------------------------------
(* Properties *)

Known == DOMAIN build_states
Status(k) == build_states[k]["status"]
Progress(k) == build_states[k]["progress"]
Terminal(k) == Status(k) \in {"complete", "error"}

\* s ends with t
IsSuffix(t, s) ==
    /\ Len(t) <= Len(s)
    /\ SubSeq(s, Len(s) - Len(t) + 1, Len(s)) = t

\* C1: once a job's status is complete or error, no step changes any field of
\* its record (so it reaches one terminal state only and never leaves it),
\* whatever the other pipelines and the downloads do.
C1_TerminalIsFinal ==
    [][\A k \in Known : Terminal(k) => build_states'[k] = build_states[k]]_vars

\* a job is terminal while the other pipeline reads build output and a
\* download of the terminal job is under way
C1_Witness ==
    \E k \in Known, j \in Ids :
        /\ Terminal(k)
        /\ j # k /\ pc[j] = "gradle_msg"
        /\ dl.pc = "got" /\ dl.id = k

\* C2: every pipeline thread that was started eventually leaves its job
\* complete or error.
C2_EventuallyTerminal ==
    \A k \in Ids : (pc[k] = "start") ~> (k \in Known /\ Terminal(k))

\* a thread has ended after an exception that is not a CalledProcessError
C2_Witness ==
    \E k \in Known :
        /\ pc[k] = "done"
        /\ Status(k) = "error"
        /\ build_states[k]["error"] = <<"APK build failed">>

\* C3: a record holds apk_path and apk_filename exactly when its status is
\* complete, and holds error exactly when its status is error.
C3_ResultIffStatus ==
    \A k \in Known :
        /\ ("apk_path" \in DOMAIN build_states[k]) <=> (Status(k) = "complete")
        /\ ("apk_filename" \in DOMAIN build_states[k]) <=> (Status(k) = "complete")
        /\ ("error" \in DOMAIN build_states[k]) <=> (Status(k) = "error")

\* one job is complete and another is in error
C3_Witness ==
    \E k \in Known, j \in Known : Status(k) = "complete" /\ Status(j) = "error"

\* C4: a thread that ends without an exception leaves status complete,
\* progress 100 and the artifact reference of its app; and a complete record
\* always has progress 100 and an artifact reference.
C4_SuccessIsComplete ==
    /\ [](\A k \in Known :
            Status(k) = "complete" =>
                /\ Progress(k) = 100
                /\ "apk_path" \in DOMAIN build_states[k])
    /\ [][\A k \in Known :
            (pc[k] \notin {"except", "done"} /\ pc'[k] = "done") =>
                /\ build_states'[k]["status"] = "complete"
                /\ build_states'[k]["progress"] = 100
                /\ build_states'[k]["apk_path"] = ApkPath(data[k].app_id)
                /\ build_states'[k]["apk_filename"] = ApkFilename(data[k].app_id)]_vars

\* a thread has ended with its job complete
C4_Witness ==
    \E k \in Known : pc[k] = "done" /\ Status(k) = "complete" /\ apk_file["app1"] = k

\* C5: download answers with the File of the record's apk_path and
\* apk_filename exactly when, as it tests the status, the id has a record whose
\* status is complete; otherwise it answers "Not ready"; and it changes no record.
C5_DownloadIffComplete ==
    /\ [][dl' # dl => build_states' = build_states]_vars
    /\ [][(dl.pc = "got" /\ dl'.pc # "got") =>
            IF dl.id \in Known /\ Status(dl.id) = "complete"
            THEN dl'.pc = "path"
            ELSE dl'.pc = "idle" /\ dl'.result = <<"Not ready">>]_vars
    /\ [][(dl.pc \in {"path", "filename"} /\ dl'.pc = "idle") =>
            dl'.result = FileResponse(build_states[dl.id]["apk_path"],
                                      build_states[dl.id]["apk_filename"])]_vars

\* a download has answered with the artifact of a job
C5_Witness ==
    dl.pc = "idle" /\ dl.result = FileResponse(ApkPath("app1"), ApkFilename("app1"))

\* C6: between two successive registry states in which a job is in_progress,
\* its progress does not decrease.
C6_ProgressMonotonic ==
    [][\A k \in Known :
          (Status(k) = "in_progress" /\ build_states'[k]["status"] = "in_progress")
              => build_states'[k]["progress"] >= Progress(k)]_vars

\* the estimator has read the marker of checkpoint 90 and then the marker of
\* checkpoint 5, and the record still shows the scaled value of the first
C6_Witness ==
    \E k \in Known :
        /\ pc[k] = "gradle"
        /\ output_lines[k] = << <<">", "Task", "assembleRelease">>, <<">", "Task", "preBuild">> >>
        /\ Progress(k) = 90

\* C7: when the build command exits non-zero, the exception carries every line
\* the command wrote, in order; the handler then sets status error with an
\* error detail that ends with that text, and the thread ends there (no later
\* stage runs, the job is never complete).
C7_BuildFailureKeepsOutput ==
    /\ [][\A k \in Ids :
            (pc[k] = "gradle" /\ pc'[k] = "except") =>
                exc'[k] = CalledProcessError(CmdApk, Join(proc_out[k]))]_vars
    /\ [][\A k \in Known :
            (/\ pc[k] = "except" /\ pc'[k] # "except"
             /\ exc[k].kind = "CalledProcessError" /\ exc[k].cmd = CmdApk) =>
                /\ pc'[k] = "done"
                /\ build_states'[k]["status"] = "error"
                /\ IsSuffix(Join(proc_out[k]), build_states'[k]["error"])]_vars

\* a job is in error after a build that wrote two lines, one of them matching no rule
C7_Witness ==
    \E k \in Known :
        /\ Status(k) = "error"
        /\ \E l \in Lines :
              build_states[k]["error"] =
                  ErrorMsg(CalledProcessError(CmdApk, Join(<< <<"warning">>, l >>)))

\* C8 as stated: the step that sets status error leaves progress as it was.
C8_ProgressFrozenOnError ==
    [][\A k \in Known :
          (Status(k) = "in_progress" /\ build_states'[k]["status"] = "error")
              => build_states'[k]["progress"] = Progress(k)]_vars

\* C8 amended: the step that sets status error sets progress to 0, whatever it
\* was, and an error record always has progress 0.
C8_ProgressZeroOnError ==
    /\ [](\A k \in Known : Status(k) = "error" => Progress(k) = 0)
    /\ [][\A k \in Known :
            (Status(k) = "in_progress" /\ build_states'[k]["status"] = "error")
                => build_states'[k]["progress"] = 0]_vars

\* a job failed in the verify stage: its record is in error, the file is missing
C8_Witness ==
    \E k \in Known :
        /\ Status(k) = "error"
        /\ build_states[k]["message"] = <<"Error:", "APK build failed">>
        /\ Progress(k) = 0

\* C9 as stated: the record submit inserts has status pending and progress 0,
\* until the pipeline writes it.
C9_InsertedPending ==
    \A k \in Known :
        pc[k] = "none" => (Status(k) = "pending" /\ Progress(k) = 0)

\* C9 amended: the record submit inserts has status in_progress and progress 0;
\* a status is one of in_progress, complete, error, and changes only from
\* in_progress to complete or to error.
C9_InsertedInProgress ==
    /\ [](\A k \in Known :
            /\ Status(k) \in {"in_progress", "complete", "error"}
            /\ pc[k] = "none" => (Status(k) = "in_progress" /\ Progress(k) = 0))
    /\ [][\A k \in Known :
            build_states'[k]["status"] # Status(k) =>
                /\ Status(k) = "in_progress"
                /\ build_states'[k]["status"] \in {"complete", "error"}]_vars
    /\ [][\A k \in Ids :
            (k \notin Known /\ k \in DOMAIN build_states') =>
                /\ build_states'[k]["status"] = "in_progress"
                /\ build_states'[k]["progress"] = 0]_vars

\* submit has inserted a record and its thread has not been started
C9_Witness ==
    \E k \in Known : sub[k] = "reading" /\ pc[k] = "none" /\ Status(k) = "in_progress"

\* the number of content sources a request carries
SourceCount(d) ==
    (IF d.zip # None THEN 1 ELSE 0) + (IF d.git_url # None THEN 1 ELSE 0)
        + (IF d.main_url # None THEN 1 ELSE 0)

\* C10: a request that does not carry exactly one content source gets no record
\* and no pipeline: every request whose record is in the registry, and every
\* request handed to a started thread, carries exactly one.
C10_ExactlyOneSource ==
    \A k \in Known :
        (sub[k] = "reading" \/ pc[k] \in {"start", "stage_a"}) => SourceCount(data[k]) = 1

----------------------------------------------------------------------------
\* C11: the record of k is in the registry before the thread of k is started
\* and before k is returned: a started thread always finds its record, a
\* returned id is always known, no record is ever removed, and the handler
\* returns in the step that starts the thread, the job not being terminal.
C11_RecordBeforeStartAndReturn ==
    /\ [](\A k \in Ids : (pc[k] # "none" \/ sub[k] = "returned") => k \in Known)
    /\ [][\A k \in Ids :
            /\ (k \in Known => k \in DOMAIN build_states')
            /\ (sub[k] # "returned" /\ sub'[k] = "returned") =>
                    (pc[k] = "none" /\ pc'[k] = "start" /\ ~Terminal(k))]_vars

\* the handler has returned the id while its job has not started its first stage
C11_Witness ==
    \E k \in Ids : sub[k] = "returned" /\ pc[k] = "start" /\ Status(k) = "in_progress"

----------------------------------------------------------------------------
\* the subscription is open: its generator has neither ended nor been closed
Subscribed == st.pc \notin {"idle", "ended", "closed"}

\* the event emitted last
LastEvent == events[Len(events)]

\* this step emits an event
Emits == events' # events /\ events' # <<>>

\* C12: a subscription whose id has no record when the generator looks it up
\* emits one event, the error event "Invalid ID", and ends: it emits no
\* snapshot, and no step of the generator creates or changes a record.
C12_UnknownIdOneError ==
    /\ [][(st.pc = "poll" /\ st.id \notin Known /\ st'.pc \notin {"poll", "closed"}) =>
            /\ st'.pc = "ended"
            /\ events' = <<ErrorEvent(<<"Invalid ID">>)>>]_vars
    /\ []((st.pc = "ended" /\ ~st.found) => events = <<ErrorEvent(<<"Invalid ID">>)>>)
    /\ [][(st' # st \/ events' # events) => build_states' = build_states]_vars

\* the stream of an id that was never submitted has ended with its error event
C12_Witness ==
    st.pc = "ended" /\ st.id \in UnknownIds /\ events = <<ErrorEvent(<<"Invalid ID">>)>>

\* C13: the first event of a subscription to an existing job is a snapshot of
\* the record as it is when the event is emitted, terminal or not: the first
\* comparison always leads to an emission, whatever the record holds.
C13_FirstEventIsCurrentState ==
    /\ [][(st.pc = "compare" /\ st.last = NoLast /\ st' # st) => st'.pc = "dumps"]_vars
    /\ [][(events = <<>> /\ Emits /\ st.id \in Known) =>
            events' = <<SnapshotEvent(build_states[st.id])>>]_vars
    /\ []((st.found /\ st.pc \in {"copy", "status", "error_get", "ended"}) =>
            events # <<>>)

\* a subscription opened on a finished job has emitted its record as first event
C13_Witness ==
    /\ st.pc = "copy" /\ st.last = NoLast
    /\ Terminal(st.id)
    /\ events = <<SnapshotEvent(build_states[st.id])>>

\* C14: no two consecutive snapshot events of a subscription carry the same
\* content.
C14_NoConsecutiveDuplicates ==
    (Len(events) = 2 /\ events[1].event = "message" /\ events[2].event = "message")
        => events[1].data # events[2].data

\* C15: a terminal event is emitted only for a job in the matching terminal
\* status, carries the build id (complete) or the record's error (error), and
\* ends the generator; an ended generator emits nothing; a generator that
\* reads a terminal status goes on to the terminal event; and the event before
\* a terminal event is a snapshot.
C15_OneMatchingTerminalEvent ==
    /\ [][(Emits /\ LastEvent'.event = "complete") =>
            /\ st.id \in Known /\ Status(st.id) = "complete"
            /\ LastEvent' = CompleteEvent(st.id)
            /\ st'.pc = "ended"]_vars
    /\ [][(Emits /\ LastEvent'.event = "error" /\ st.id \in Known) =>
            /\ Status(st.id) = "error"
            /\ LastEvent' = ErrorEvent(build_states[st.id]["error"])
            /\ st'.pc = "ended"]_vars
    /\ [][(st.pc \in {"ended", "closed"} /\ events' # events) => events' = <<>>]_vars
    /\ [][(st.pc = "status" /\ Terminal(st.id) /\ st' # st) =>
            st'.pc = IF Status(st.id) = "complete" THEN "ended" ELSE "error_get"]_vars
    /\ [][(st.pc = "error_get" /\ st' # st) => (Emits /\ st'.pc = "ended")]_vars
    /\ []((Len(events) = 2 /\ st.id \in Known) => events[1].event = "message")

\* a subscription has ended with a snapshot followed by the error event of its job
C15_Witness ==
    /\ st.pc = "ended" /\ st.found /\ Len(events) = 2
    /\ events[1] = SnapshotEvent(build_states[st.id])
    /\ events[2] = ErrorEvent(build_states[st.id]["error"])

\* C16: a subscription to an existing job that has become terminal eventually
\* ends with its terminal event, unless the client goes away before.
C16_SubscriptionEnds ==
    (Subscribed /\ st.id \in Known /\ Terminal(st.id))
        ~> \/ st.pc = "closed"
           \/ st.pc = "ended" /\ LastEvent.event \in {"complete", "error"}

\* a subscription has ended with the complete event of its job
C16_Witness ==
    st.pc = "ended" /\ st.found /\ LastEvent = CompleteEvent(st.id)

----------------------------------------------------------------------------
\* this step is a step of the thread of job k
StepOf(k) ==
    /\ pc[k] \notin {"none", "done"}
    /\ (pc'[k] # pc[k] \/ output_lines'[k] # output_lines[k])

\* C17: once created, the record of k changes only in steps of the thread of
\* k, and such a step leaves every other record as it is; the final record of
\* k is made of k's own last update: its own artifact names on success, its own
\* exception on failure.
C17_SingleWriterPerJob ==
    /\ [][\A k \in Known :
            build_states'[k] # build_states[k] =>
                /\ StepOf(k)
                /\ \A j \in Known \ {k} : build_states'[j] = build_states[j]]_vars
    /\ [][\A k \in Known :
            (pc[k] = "complete" /\ pc'[k] = "done") =>
                build_states'[k] =
                    [status |-> "complete", progress |-> 100, message |-> <<"Done!">>,
                     apk_path |-> ApkPath(data[k].app_id),
                     apk_filename |-> ApkFilename(data[k].app_id)]]_vars
    /\ [][\A k \in Known :
            (pc[k] = "except" /\ pc'[k] = "done") =>
                /\ DOMAIN build_states'[k] = {"status", "progress", "message", "error"}
                /\ build_states'[k]["error"] =
                       IF exc[k].kind = "CalledProcessError"
                       THEN ErrorMsg(exc[k]) ELSE exc[k].text]_vars

\* two jobs have run side by side and ended differently
C17_Witness ==
    /\ Known = {1, 2}
    /\ Status(1) = "error" /\ Status(2) = "complete"
    /\ build_states[1]["error"] # <<>>

----------------------------------------------------------------------------
\* a record as some update call leaves it: one of the field sets written
\* together, never a mixture
WholeRecord(r) ==
    CASE r["status"] = "complete" ->
            /\ DOMAIN r = {"status", "progress", "message", "apk_path", "apk_filename"}
            /\ r["progress"] = 100 /\ r["message"] = <<"Done!">>
      [] r["status"] = "error" ->
            /\ DOMAIN r = {"status", "progress", "message", "error"}
            /\ r["progress"] = ErrorProgress
      [] OTHER ->
            /\ DOMAIN r = {"status", "progress", "message"}
            /\ r["progress"] < 100

\* C18: what a reader uses of a record is the record as it is at one instant.
\* An emitted snapshot is the whole record at the emission; the error event
\* carries the error of the record as it is then; download, which reads the
\* status, the path and the file name one after the other, reads all three
\* from a record that does not change in between, and answers with the
\* fields of the record as it is when it answers.
C18_NoTornSnapshot ==
    /\ [](\A k \in Known : WholeRecord(build_states[k]))
    /\ [][(Emits /\ LastEvent'.event = "message") =>
            LastEvent'.data = Dumps(build_states[st.id])]_vars
    /\ [][(Emits /\ LastEvent'.event = "error" /\ st.id \in Known) =>
            LastEvent'.data = <<<<"error", build_states[st.id]["error"]>>>>]_vars
    /\ [][dl.pc \in {"path", "filename"} =>
            /\ build_states'[dl.id] = build_states[dl.id]
            /\ Status(dl.id) = "complete"]_vars
    /\ [][(dl.pc = "filename" /\ dl'.pc = "idle") =>
            dl'.result = FileResponse(build_states[dl.id]["apk_path"],
                                      build_states[dl.id]["apk_filename"])]_vars

\* a download has answered with the artifact while a subscription to the same
\* job has emitted the final record
C18_Witness ==
    /\ dl.pc = "idle" /\ dl.result = FileResponse(ApkPath("app1"), ApkFilename("app1"))
    /\ events # <<>> /\ LastEvent.event = "message"
    /\ LastEvent.data = Dumps(build_states[1]) /\ Status(1) = "complete"

----------------------------------------------------------------------------
\* the thread of job 1 reads a line of the build tool in this step
ReadsLine == pc[1] = "gradle" /\ Len(proc_out'[1]) = Len(proc_out[1]) + 1

\* the line read in this step
LineRead == proc_out'[1][Len(proc_out'[1])]

\* the checkpoint of the rule a line matches, 0 if it matches none
Checkpoint(line) == IF FirstMatch(line) = 0 THEN 0 ELSE GRADLE_TASKS[FirstMatch(line)][2]

\* C19: the progress written for a line matching a rule with checkpoint c is
\* exactly base + (c/100) * (ceiling - base), for the ceiling 95 the code scales
\* to or for the ceiling 100 of the window [50,100]: checkpoint 10 gives 55
\* (54.5 for 95) and checkpoint 50 gives 75 (72.5 for 95).
C19_ExactLinearScaling ==
    [][(ReadsLine /\ build_states'[1] # build_states[1]) =>
        \E ceiling \in {GradleCeiling, 100} :
            100 * Progress(1)' =
                100 * BuildBase + Checkpoint(LineRead) * (ceiling - BuildBase)]_vars

\* C19, amended: the progress written for a line matching a rule with
\* checkpoint c is base + floor(c * (95 - base) / 100): the ceiling is the
\* constant 95 and the fraction is dropped.  With base 50, checkpoint 10 gives
\* 54 and checkpoint 50 gives 72.
C19_TruncatedScalingTo95 ==
    [][(ReadsLine /\ build_states'[1] # build_states[1]) =>
        LET c == Checkpoint(LineRead)
            p == build_states'[1]["progress"]
        IN /\ c > 0
           /\ 100 * (p - BuildBase) <= c * (GradleCeiling - BuildBase)
           /\ c * (GradleCeiling - BuildBase) < 100 * (p - BuildBase + 1)
           /\ (c = 10 => p = 54)
           /\ (c = 50 => p = 72)
           /\ p <= GradleCeiling]_vars

\* the checkpoint-10 line, then the checkpoint-50 line, have been read, and
\* the record is at 72
C19_Witness ==
    /\ output_lines[1] = <<<<">", "Task", "compileReleaseAidl">>,
                           <<">", "Task", "compileReleaseSources">>>>
    /\ last_progress[1] = 72
    /\ build_states[1]["progress"] = 72

\* C20: a line whose rule scales to less than a value already written leaves
\* the record as it is: no progress write, and the message stays.
C20_LowerMarkerLeavesRecord ==
    /\ [][(ReadsLine /\ Checkpoint(LineRead) # 0
            /\ ScaledProgress(BuildBase, Checkpoint(LineRead)) < last_progress[1]) =>
                build_states' = build_states]_vars
    /\ [][(pc[1] = "gradle_msg" /\ pc'[1] = "gradle" /\ Checkpoint(cur_line[1]) # 0
            /\ ScaledProgress(BuildBase, Checkpoint(cur_line[1])) < last_progress[1]) =>
                build_states' = build_states]_vars

\* C20, amended: the rule scan writes the record only for a scaled value
\* strictly above the base and above every value written before (the record's
\* progress is the largest so far), and then writes that value; for any other
\* matching line the rule scan writes nothing.  The message stays unless the
\* line holds "Download" or "Compiling": then the message heuristics replace
\* it, the progress staying.
C20_RatchetAndHeuristics ==
    /\ [](pc[1] \in {"gradle", "gradle_msg"} =>
            (Progress(1) = last_progress[1] /\ last_progress[1] >= BuildBase))
    /\ [][(ReadsLine /\ build_states'[1] # build_states[1]) =>
            /\ ScaledProgress(BuildBase, Checkpoint(LineRead)) > last_progress[1]
            /\ ScaledProgress(BuildBase, Checkpoint(LineRead)) > BuildBase
            /\ Progress(1)' = ScaledProgress(BuildBase, Checkpoint(LineRead))]_vars
    /\ [][(ReadsLine /\ ScaledProgress(BuildBase, Checkpoint(LineRead)) <= last_progress[1]) =>
            (build_states' = build_states /\ last_progress' = last_progress)]_vars
    /\ [][(pc[1] = "gradle_msg" /\ pc'[1] = "gradle") =>
            /\ Progress(1)' = Progress(1)
            /\ HeuristicMessage(cur_line[1]) # None
            /\ build_states'[1]["message"] = HeuristicMessage(cur_line[1])]_vars

\* a marker of an earlier checkpoint came after a later one: the progress
\* stayed, the message was replaced by the heuristics
C20_Witness ==
    /\ pc[1] = "gradle"
    /\ output_lines[1] = <<<<">", "Task", "assembleRelease">>,
                           <<"Compiling", "mergeDexRelease">>>>
    /\ build_states[1]["progress"] = 90
    /\ build_states[1]["message"] = <<"Compiling source code...">>

----------------------------------------------------------------------------
\* rule i is the first rule in table order whose marker is in the line
IsFirstRule(i, line) ==
    /\ Contains(line, GRADLE_TASKS[i][1])
    /\ \A j \in 1..(i - 1) : ~Contains(line, GRADLE_TASKS[j][1])

\* C21: for a line read, only the first rule in table order whose marker is in
\* the line counts: the record gets that rule's scaled value if it is above
\* the last value written, and otherwise stays as it is, whatever the later
\* rules matching the line would give.
C21_FirstMatchWins ==
    [][ReadsLine =>
        \A i \in 1..Len(GRADLE_TASKS) :
            IsFirstRule(i, LineRead) =>
                LET scaled == BuildBase
                                + (GRADLE_TASKS[i][2] * (GradleCeiling - BuildBase)) \div 100
                IN IF scaled > last_progress[1]
                   THEN /\ Progress(1)' = scaled
                        /\ last_progress'[1] = scaled
                   ELSE /\ build_states' = build_states
                        /\ last_progress' = last_progress]_vars

\* a line with the markers of preBuild and assembleRelease came after
\* preBuild: nothing was written, although assembleRelease scales to 90
C21_Witness ==
    /\ pc[1] = "gradle"
    /\ output_lines[1] = <<<<">", "Task", "preBuild">>, <<"assembleRelease", "preBuild">>>>
    /\ build_states[1]["progress"] = 52
    /\ build_states[1]["message"] = <<"Building:", "Task", "preBuild">>

----------------------------------------------------------------------------
\* the line holds the word, as a substring
Holds(line, word) == \E i \in 1..Len(line) : Substr(word, line[i])

\* C22: a line that matches no rule is read without any write by the rule
\* scan, so the progress stays; the heuristic write, for a line holding
\* "Download" and else for a line holding "Compiling", changes the message
\* and nothing else of the record (the status is in_progress before and
\* after), whether or not the line matched a rule.
C22_HeuristicsWriteMessageOnly ==
    /\ [][(ReadsLine /\ \A i \in 1..Len(GRADLE_TASKS) : ~Holds(LineRead, GRADLE_TASKS[i][1]))
            => (build_states' = build_states /\ last_progress' = last_progress)]_vars
    /\ [][(pc[1] = "gradle_msg" /\ pc'[1] = "gradle") =>
            /\ build_states'[1] =
                  [build_states[1] EXCEPT
                     !["message"] = IF Holds(cur_line[1], "Download")
                                    THEN <<"Downloading dependencies...">>
                                    ELSE <<"Compiling source code...">>]
            /\ build_states'[1]["status"] = "in_progress"
            /\ (Holds(cur_line[1], "Download") \/ Holds(cur_line[1], "Compiling"))]_vars
    /\ [][(ReadsLine /\ (Holds(LineRead, "Download") \/ Holds(LineRead, "Compiling")))
            => pc'[1] = "gradle_msg"]_vars

\* a line with a marker and both words has been read past the ratchet: the
\* progress is the rule's, the message the "Download" one
C22_Witness ==
    /\ pc[1] = "gradle"
    /\ output_lines[1] = <<<<"Download", "Compiling", "packageRelease">>>>
    /\ build_states[1]["progress"] = 88
    /\ build_states[1]["message"] = <<"Downloading dependencies...">>

----------------------------------------------------------------------------
\* the positions of a thread where a stage other than the clean stage can fail
FailingStages == {"stage_a", "config_run", "inject", "build", "gradle", "verify"}

\* C23: however the clean command ends, the thread goes on to stage c with its
\* record untouched and no exception pending; an exception is raised only in
\* another stage, and the step of the thread after it is its last: it writes
\* status error.
C23_OnlyCleanFailureSuppressed ==
    /\ [][\A k \in Ids :
            (pc[k] = "clean_run" /\ pc'[k] # pc[k]) =>
                /\ pc'[k] = "config"
                /\ clean_exit'[k] \in CommandExits
                /\ exc'[k] = NoExc
                /\ build_states' = build_states]_vars
    /\ [][\A k \in Ids :
            (pc[k] # "except" /\ pc'[k] = "except") =>
                (pc[k] \in FailingStages /\ exc'[k] # NoExc)]_vars
    /\ [][\A k \in Ids :
            (pc[k] = "except" /\ pc'[k] # pc[k]) =>
                (pc'[k] = "done" /\ Status(k)' = "error")]_vars
    /\ [](\A k \in Ids : (pc[k] \in {"config", "config_run"} => exc[k] = NoExc))

\* the clean command of a job failed and the job is at stage c, still in progress
C23_Witness ==
    \E k \in Ids :
        /\ clean_exit[k] \in {"nonzero", "launch_failed"}
        /\ pc[k] = "config"
        /\ Status(k) = "in_progress" /\ Progress(k) = 20

----------------------------------------------------------------------------
\* OUTPUT_DIR/app_id/app_id.apk of job k exists
ArtifactExists(k) == apk_file[data[k].app_id] # 0

\* C24: when stage f looks for the artifact of a job whose build command
\* exited 0, a missing file raises "APK build failed" and the job ends in
\* error; status complete is written only by a thread that found the file at
\* that moment.
C24_MissingArtifactIsError ==
    /\ [][\A k \in Ids :
            (pc[k] = "verify" /\ pc'[k] # pc[k]) =>
                IF ArtifactExists(k)
                THEN pc'[k] = "finalize"
                ELSE pc'[k] = "except" /\ exc'[k] = Exception(<<"APK build failed">>)]_vars
    /\ [][\A k \in Ids :
            pc'[k] = "finalize" => pc[k] \in {"verify", "finalize"}]_vars
    /\ [][\A k \in Known :
            (Status(k) # "complete" /\ Status(k)' = "complete") =>
                (pc[k] = "complete" /\ pc'[k] = "done")]_vars
    /\ [][\A k \in Ids :
            pc'[k] = "complete" => pc[k] \in {"finalize", "complete"}]_vars

\* a job whose build command exited 0 without leaving the file has ended in error
C24_Witness ==
    \E k \in Known :
        /\ Status(k) = "error"
        /\ build_states[k]["error"] = <<"APK build failed">>
        /\ apk_file["app1"] = 0

----------------------------------------------------------------------------
\* C25: whenever a thread or coroutine is between two of its steps (waiting
\* for a command, for a line of its output, in the sleep, at a yield) the lock
\* is free; so a running thread, a download under way and a subscribed
\* generator whose turn it is always have a step they can take.
C25_LockFreeBetweenSteps ==
    /\ lock = None
    /\ (pc[1] \notin {"none", "done"} => ENABLED PipelineOver(1, StreamLines, MaxStreamLines))
    /\ (dl.pc # "idle" => ENABLED Download)
    /\ ((Subscribed /\ dl.pc = "idle") => ENABLED Stream)

\* the thread reads the output of the build command, the generator is
\* suspended at a yield and a download has just read the registry
C25_Witness ==
    /\ pc[1] = "gradle" /\ proc_out[1] # <<>>
    /\ st.pc = "copy"
    /\ dl.pc = "got"
    /\ lock = None

\* C26: the generated files of the shared workspace belong to one job from
\* its stage a to the end of its stage f: while a job runs the build tool
\* (stage e), the generated files are the ones its own stage d wrote.
C26_WorkspaceOwnedDuringBuild ==
    \A k \in Ids : pc[k] \in {"build", "gradle", "gradle_msg"} => sources = k

\* C28: every job record has a pipeline run: once submit has finished for an
\* id (returned or raised) and the record of that id is in the registry, a
\* pipeline thread has been started for it.
C28_EveryRecordHasAThread ==
    \A k \in Known : sub[k] \in {"returned", "raised"} => pc[k] # "none"

\* a step of a progress stream or of a download call
ReaderStep ==
    \/ \E id \in {1} \cup UnknownIds : Subscribe(id)
    \/ Stream
    \/ Disconnect
    \/ Download

\* the registry and everything a pipeline thread reads or writes
PipelineState ==
    <<build_states, next_id, sub, data, pc, pipe_locals, apk_file, nlines, clean_exit, sources>>

\* C27: progress streams and downloads are read-only: opening, polling,
\* ending or abandoning a subscription, and every step of a download call,
\* leave every job record and the whole state of the pipeline unchanged, and
\* whatever the readers do, a started thread that has not ended has a step.
C27_ReadersAreReadOnly ==
    [][/\ ReaderStep => UNCHANGED PipelineState
       /\ (pc[1] \notin {"none", "done"}
              => ENABLED PipelineOver(1, StreamLines, MaxStreamLines))']_vars

\* the subscriber went away, a download is under way, the job completed
C27_Witness ==
    /\ st.pc = "closed"
    /\ dl.pc # "idle"
    /\ 1 \in Known /\ Status(1) = "complete"

\* C29: on a subscription that ended with a complete or error event, the
\* last snapshot emitted before that event already shows the terminal state:
\* status complete with progress 100, or status error.
C29_LastSnapshotIsTerminal ==
    (st.pc = "ended" /\ st.found /\ Len(events) = 2) =>
        /\ events[1].event = "message"
        /\ \/ /\ events[2].event = "complete"
              /\ events[1].data[1] = <<"status", "complete">>
              /\ events[1].data[2] = <<"progress", 100>>
           \/ /\ events[2].event = "error"
              /\ events[1].data[1] = <<"status", "error">>

\* the job whose build wrote the file at an artifact path OUTPUT_DIR/app/app.apk
WriterOf(path) == apk_file[path[2]]

\* C30: the artifact file a complete job refers to was written by that
\* job's own build and by no other job, also when two jobs were submitted
\* with the same app_id; so a download of the job returns its own artifact.
C30_ArtifactIsTheJobsOwn ==
    \A k \in Known : Status(k) = "complete" => WriterOf(build_states[k]["apk_path"]) = k

\* the content-source branch stage a takes for thread_data d
Branch(d) ==
    IF Truthy(d.zip) THEN "zip" ELSE IF Truthy(d.git_url) THEN "git" ELSE "url"

\* C31: stage a runs exactly one content-source branch per job, chosen by
\* fixed precedence: the archive branch for non-empty archive bytes, else the
\* git branch for a git URL, else the URL branch; only the git branch writes
\* the progress checkpoint 10, and only the git branch hands git information
\* to stage d.
C31_OneBranchByPrecedence ==
    /\ [][\A k \in Ids :
            (pc[k] = "stage_a" /\ pc'[k] # "stage_a") =>
                CASE Branch(data[k]) = "zip" ->
                        /\ Progress(k)' = Progress(k)
                        /\ git_info'[k] = None
                        /\ pc'[k] = "clean" <=> data[k].zip = "ok"
                        /\ pc'[k] = "clean" => final_url'[k] = "asset_url"
                  [] Branch(data[k]) = "git" ->
                        /\ Progress(k)' = 10
                        /\ pc'[k] = "clean" <=> data[k].git_url = "valid"
                        /\ pc'[k] = "clean" => (git_info'[k] = "git_info" /\ final_url'[k] = "")
                  [] OTHER ->
                        /\ Progress(k)' = Progress(k)
                        /\ git_info'[k] = None
                        /\ pc'[k] = "clean"
                        /\ final_url'[k] = data[k].main_url]_vars
    \* checkpoint 10 is written by the git branch and by nothing else
    /\ [][\A k \in Known :
            (Progress(k)' = 10 /\ Progress(k) # 10) =>
                (pc[k] = "stage_a" /\ Branch(data[k]) = "git")]_vars
    \* git information comes from the git branch and reaches stage d as it is
    /\ [][\A k \in Ids :
            (git_info'[k] # git_info[k] /\ git_info'[k] # None) =>
                (pc[k] = "stage_a" /\ Branch(data[k]) = "git")]_vars
    /\ [][\A k \in Ids :
            pc[k] \in {"clean", "clean_run", "config", "config_run"} =>
                (git_info'[k] = git_info[k] /\ final_url'[k] = final_url[k])]_vars
    \* stage a is entered once, from the start of the thread
    /\ [][\A k \in Ids :
            /\ (pc'[k] = "stage_a" /\ pc[k] # "stage_a") => pc[k] = "start"
            /\ (pc'[k] = "start" /\ pc[k] # "start") => pc[k] = "none"]_vars
    \* exactly one branch is open to a thread in stage a
    /\ [](\A k \in Ids : pc[k] = "stage_a" =>
            /\ ENABLED P_StageZip(k) <=> Branch(data[k]) = "zip"
            /\ ENABLED P_StageGit(k) <=> Branch(data[k]) = "git"
            /\ ENABLED P_StageUrl(k) <=> Branch(data[k]) = "url")

\* the git branch has run: checkpoint 10 is written, git information is set
C31_Witness ==
    /\ pc[1] = "inject"
    /\ git_info[1] = "git_info" /\ final_url[1] = ""
    /\ 1 \in Known /\ Progress(1) = 30

\* stage a about to choose for a request with an empty archive, a git URL
\* and a page URL
C31_WitnessPrecedence ==
    /\ pc[1] = "stage_a"
    /\ data[1].zip = "" /\ data[1].git_url = "valid" /\ data[1].main_url = "url"

====
